---- MODULE Spec2Model ----
(***************************************************************************)
(* Model of face-quality-service/app.py: the rectangle matching, the two   *)
(* croppers, the confidence scorer and the two request handlers            *)
(* (/quality/assess and /quality/detect).                                  *)
(*                                                                         *)
(* Python values are modelled as records: a dict is a record whose domain  *)
(* is its key set, None is the record None, a raised exception is a record *)
(* with the field "raise".  A float produced by a division of integers is  *)
(* the exact fraction [num, den] (den > 0) and is compared by cross        *)
(* multiplication.  The percentages 0.1 and 0.2 are the exact fractions    *)
(* 1/10 and 1/5.  An image is represented by its shape [w, h]; a crop (a   *)
(* numpy view) by the pixel region [x0, x1) x [y0, y1) it views.           *)
(***************************************************************************)
EXTENDS Integers, Sequences, FiniteSets, TLC

VARIABLES
    fn,             \* pure-function harness: the function applied
    arg,            \* pure-function harness: its arguments
    ret,            \* pure-function harness: its result (Pending before the call)
    pc,             \* handler position: "idle", "start", "loop", "done"
    image_bytes,    \* the request's image: "ok" (decodable) or "corrupt"
    image,          \* the decoded image [w, h], or None
    faces_data,     \* assess: the request's face records
    detected,       \* detect: the output of the single detector.run call, or None
    pos,            \* loop index into faces_data / detected.dets (1-based)
    result_faces,   \* the handler's result_faces list
    response,       \* the handler's HTTP response, or None while running
    calls           \* per loop iteration: which collaborators were called

vars == <<fn, arg, ret, pc, image_bytes, image, faces_data, detected, pos,
          result_faces, response, calls>>

----------------------------------------------------------------------------
(* Python values *)

None == [none |-> TRUE]
Pending == [pending |-> TRUE]
Raise(name) == [raise |-> name]
Raised(v) == "raise" \in DOMAIN v

Max(a, b) == IF a >= b THEN a ELSE b
Min(a, b) == IF a <= b THEN a ELSE b

\* int(n / d) for d > 0: truncation toward zero
Trunc(n, d) == IF n >= 0 THEN n \div d ELSE -((-n) \div d)

\* round(n / d) for d > 0 odd (no ties): the nearest integer
RoundOdd(n, d) == (2 * n + d) \div (2 * d)

\* floats that are quotients of integers
Float(n, d) == [num |-> n, den |-> d]
FloatGT(p, q) == p.num * q.den > q.num * p.den
FloatEQ(p, q) == p.num * q.den = q.num * p.den
FloatGE(p, q) == p.num * q.den >= q.num * p.den
Zero == Float(0, 1)
One == Float(1, 1)

BoxKeys == {"x_min", "y_min", "x_max", "y_max"}
HasKeys(box) == BoxKeys \subseteq DOMAIN box

----------------------------------------------------------------------------
(* calculate_iou, app.py 65-80 *)

\* a plausible slip: the union computed without subtracting the overlap
calculate_iou_no_subtract(box1, box2) ==
    IF ~HasKeys(box1) \/ ~HasKeys(box2) THEN Raise("KeyError")
    ELSE
    LET x_left == Max(box1.x_min, box2.x_min)
        y_top == Max(box1.y_min, box2.y_min)
        x_right == Min(box1.x_max, box2.x_max)
        y_bottom == Min(box1.y_max, box2.y_max)
    IN  IF x_right < x_left \/ y_bottom < y_top THEN Float(0, 1)
        ELSE LET overlap_area == (x_right - x_left) * (y_bottom - y_top)
                 area_bbox1 == (box1.x_max - box1.x_min) * (box1.y_max - box1.y_min)
                 area_bbox2 == (box2.x_max - box2.x_min) * (box2.y_max - box2.y_min)
                 total_area == area_bbox1 + area_bbox2
             IN  IF total_area = 0 THEN Raise("ZeroDivisionError")
                 ELSE Float(overlap_area, total_area)

calculate_iou(box1, box2) ==
    IF ~HasKeys(box1) \/ ~HasKeys(box2) THEN Raise("KeyError")
    ELSE
    LET x_left == Max(box1.x_min, box2.x_min)
        y_top == Max(box1.y_min, box2.y_min)
        x_right == Min(box1.x_max, box2.x_max)
        y_bottom == Min(box1.y_max, box2.y_max)
    IN  IF x_right < x_left \/ y_bottom < y_top THEN Float(0, 1)
        ELSE LET overlap_area == (x_right - x_left) * (y_bottom - y_top)
                 area_bbox1 == (box1.x_max - box1.x_min) * (box1.y_max - box1.y_min)
                 area_bbox2 == (box2.x_max - box2.x_min) * (box2.y_max - box2.y_min)
                 total_area == area_bbox1 + area_bbox2 - overlap_area
             IN  IF total_area = 0 THEN Raise("ZeroDivisionError")
                 ELSE Float(overlap_area, total_area)

----------------------------------------------------------------------------
(* find_best_matching_face, app.py 83-104.  The detector (dlib) is an      *)
(* external collaborator: dets is the rectangle list detector.run returned.*)

dlib_bbox(d) ==
    [x_min |-> d.left, y_min |-> d.top, x_max |-> d.right, y_max |-> d.bottom]

\* the for loop of lines 91-102, from detection k on
RECURSIVE best_match_loop(_, _, _, _, _)
best_match_loop(dets, bbox, k, best_match, highest_iou) ==
    IF k > Len(dets) THEN best_match
    ELSE LET iou_score == calculate_iou(bbox, dlib_bbox(dets[k]))
         IN  IF Raised(iou_score) THEN iou_score
             ELSE IF FloatGT(iou_score, highest_iou)
                  THEN best_match_loop(dets, bbox, k + 1, dets[k], iou_score)
                  ELSE best_match_loop(dets, bbox, k + 1, best_match, highest_iou)

\* the same loop with ">=" in place of ">" (the last maximum wins)
RECURSIVE best_match_loop_ge(_, _, _, _, _)
best_match_loop_ge(dets, bbox, k, best_match, highest_iou) ==
    IF k > Len(dets) THEN best_match
    ELSE LET iou_score == calculate_iou(bbox, dlib_bbox(dets[k]))
         IN  IF Raised(iou_score) THEN iou_score
             ELSE IF FloatGE(iou_score, highest_iou)
                  THEN best_match_loop_ge(dets, bbox, k + 1, dets[k], iou_score)
                  ELSE best_match_loop_ge(dets, bbox, k + 1, best_match, highest_iou)

\* a plausible slip: highest_iou starts below every score (no threshold)
find_best_matching_face_no_threshold(dets, bbox) ==
    best_match_loop(dets, bbox, 1, None, Float(-1, 1))

\* a plausible slip: ">=" instead of ">"
find_best_matching_face_ge(dets, bbox) ==
    best_match_loop_ge(dets, bbox, 1, None, Float(0, 1))

find_best_matching_face(dets, bbox) ==
    best_match_loop(dets, bbox, 1, None, Float(0, 1))

----------------------------------------------------------------------------
(* numpy slicing.  a[start:stop] on an axis of length n: a negative index  *)
(* counts from the end, indices are then clipped to 0..n, and a stop below *)
(* the start gives an empty range.                                         *)

PyIndex(i, n) == IF i < 0 THEN Max(0, i + n) ELSE Min(i, n)

PySlice(start, stop, n) ==
    LET lo == PyIndex(start, n)
        hi == PyIndex(stop, n)
    IN  [lo |-> lo, hi |-> Max(lo, hi)]

\* image[y_start:y_stop, x_start:x_stop]: the region of the image viewed
Crop(img, y_start, y_stop, x_start, x_stop) ==
    LET xs == PySlice(x_start, x_stop, img.w)
        ys == PySlice(y_start, y_stop, img.h)
    IN  [x0 |-> xs.lo, x1 |-> xs.hi, y0 |-> ys.lo, y1 |-> ys.hi]

\* crop.shape[1], crop.shape[0]
Width(crop) == crop.x1 - crop.x0
Height(crop) == crop.y1 - crop.y0
Empty(crop) == Width(crop) = 0 \/ Height(crop) = 0

----------------------------------------------------------------------------
(* crop_face_simple, app.py 210-228, with its default percentage = 0.1 =   *)
(* 1 / PercentageDen; relaxation is carried multiplied by PercentageDen.   *)

PercentageDen == 10

crop_face_simple(img, bbox) ==
    IF ~HasKeys(bbox) THEN Raise("KeyError")
    ELSE
    LET width == bbox.x_max - bbox.x_min
        height == bbox.y_max - bbox.y_min
        relaxation == Min(width, height)
        x_min_relaxed == Max(0, Trunc(PercentageDen * bbox.x_min - relaxation, PercentageDen))
        y_min_relaxed == Max(0, Trunc(PercentageDen * bbox.y_min - relaxation, PercentageDen))
        x_max_relaxed == Min(img.w, Trunc(PercentageDen * bbox.x_max + relaxation, PercentageDen))
        y_max_relaxed == Min(img.h, Trunc(PercentageDen * bbox.y_max + relaxation, PercentageDen))
    IN  Crop(img, y_min_relaxed, y_max_relaxed, x_min_relaxed, x_max_relaxed)

----------------------------------------------------------------------------
(* crop_face_aligned, app.py 139-185.  The detector, the landmark          *)
(* predictor and OpenCV are external: det_out is what detector.run does    *)
(* (a result or a raised exception), rect_out what lines 151-167 produce   *)
(* (the bounding rectangle [x, y, w, h] of the rotated landmarks, or a     *)
(* raised exception).                                                      *)

MIN_PADDING == 25

\* percentage = 0.2 = 1 / PaddingDen; relaxation is carried multiplied by it
PaddingDen == 5

\* a plausible slip: the available space measured from the padded origin
loose_rect_from_padded_origin(x, y, w, h, W, H) ==
    LET relaxation == Max(PaddingDen * MIN_PADDING, Min(w, h))
        px == RoundOdd(Max(0, PaddingDen * x - relaxation), PaddingDen)
        py == RoundOdd(Max(0, PaddingDen * y - relaxation), PaddingDen)
        pw == RoundOdd(Min(PaddingDen * w + 2 * relaxation, PaddingDen * (W - px)), PaddingDen)
        ph == RoundOdd(Min(PaddingDen * h + 2 * relaxation, PaddingDen * (H - py)), PaddingDen)
    IN  [relaxation |-> Float(relaxation, PaddingDen),
         px |-> px, py |-> py, pw |-> pw, ph |-> ph]

\* lines 169-176: the padding and the loose rectangle
loose_rect(x, y, w, h, W, H) ==
    LET relaxation == Max(PaddingDen * MIN_PADDING, Min(w, h))
        px == RoundOdd(Max(0, PaddingDen * x - relaxation), PaddingDen)
        py == RoundOdd(Max(0, PaddingDen * y - relaxation), PaddingDen)
        pw == RoundOdd(Min(PaddingDen * w + 2 * relaxation, PaddingDen * (W - x)), PaddingDen)
        ph == RoundOdd(Min(PaddingDen * h + 2 * relaxation, PaddingDen * (H - y)), PaddingDen)
    IN  [relaxation |-> Float(relaxation, PaddingDen),
         px |-> px, py |-> py, pw |-> pw, ph |-> ph]

crop_face_aligned(img, bbox, det_out, rect_out) ==
    LET best_face == IF Raised(det_out) THEN det_out
                     ELSE find_best_matching_face(det_out.dets, bbox)
    IN  IF Raised(best_face) THEN None
        ELSE IF best_face = None THEN None
        ELSE IF Raised(rect_out) THEN None
        ELSE LET x == rect_out.x
                 y == rect_out.y
                 w == rect_out.w
                 h == rect_out.h
                 p == loose_rect(x, y, w, h, img.w, img.h)
             IN  [loose |-> Crop(img, p.py, p.py + p.ph, p.px, p.px + p.pw),
                  tight |-> Crop(img, y, y + h, x, x + w)]

----------------------------------------------------------------------------
(* dlib_confidence_score, app.py 188-207.  det_out is what detector.run    *)
(* does on the crop.  cv2.cvtColor raises on an empty image.               *)

DLIB_SUBD ==
    <<"front", "left", "right", "front-rotate-left", "front-rotate-right",
      "n/a", "n/a">>

\* a plausible slip: an empty detector result or a raising detector is not
\* caught
dlib_confidence_score_propagating(cropped_image, det_out) ==
    IF Empty(cropped_image) THEN Raise("cv2.error")
    ELSE IF Raised(det_out) THEN det_out
    ELSE IF Len(det_out.dets) = 0 THEN Raise("IndexError")
    ELSE [score |-> det_out.scores[1],
          type |-> DLIB_SUBD[det_out.idx[1] + 1],
          type_raw |-> det_out.idx[1]]

dlib_confidence_score(cropped_image, det_out) ==
    IF Empty(cropped_image) THEN None
    ELSE IF Raised(det_out) THEN None
    ELSE IF Len(det_out.dets) > 0
         THEN IF det_out.idx[1] >= Len(DLIB_SUBD) \/ det_out.idx[1] < -Len(DLIB_SUBD)
              THEN None
              ELSE [score |-> det_out.scores[1],
                    type |-> DLIB_SUBD[(det_out.idx[1] % Len(DLIB_SUBD)) + 1],
                    type_raw |-> det_out.idx[1]]
         ELSE None

----------------------------------------------------------------------------
(* load_image_from_bytes, app.py 231-244: the decoded image, or None when  *)
(* the bytes cannot be decoded.                                            *)

DecodedImage == [w |-> 10, h |-> 12]

load_image_from_bytes(bytes) ==
    IF bytes = "ok" THEN DecodedImage ELSE None

----------------------------------------------------------------------------
(* assess_quality, app.py 276-373: one iteration of the loop over          *)
(* faces_data (lines 335-366).  det_out, rect_out and conf_out are what    *)
(* the external collaborators do during this iteration.  The result says   *)
(* whether the iteration appends a face ("emit"), continues ("skip") or    *)
(* lets an exception escape to the handler's except clause ("raise"); call *)
(* records which functions the iteration called and what they returned.    *)

\* why crop_face_aligned returned what it returned
AlignedOutcome(img, bbox, det_out, rect_out) ==
    IF crop_face_aligned(img, bbox, det_out, rect_out) # None THEN "ok"
    ELSE IF Raised(det_out) THEN "exception"
    ELSE IF Len(det_out.dets) = 0 THEN "no_detections"
    ELSE IF Raised(find_best_matching_face(det_out.dets, bbox)) THEN "exception"
    ELSE IF find_best_matching_face(det_out.dets, bbox) = None THEN "no_match"
    ELSE "exception"

NoCalls ==
    [aligned |-> "not_called", simple |-> FALSE, scorer |-> FALSE,
     crop |-> None, conf_out |-> None, confidence |-> None, result |-> None]

\* lines 355-364: the result record merged with the passthrough fields
ResultFace(face_data, bbox, confidence, cropped_image) ==
    [key \in {"box", "confidence", "cropped_size"} \cup DOMAIN face_data |->
        IF key = "box" THEN bbox
        ELSE IF key = "confidence" THEN confidence
        ELSE IF key = "cropped_size"
             THEN [width |-> Width(cropped_image), height |-> Height(cropped_image)]
        ELSE face_data[key]]

\* a plausible slip: no fallback, a face without aligned crop is skipped
assess_face_no_fallback(img, face_data, det_out, rect_out, conf_out) ==
    IF "box" \notin DOMAIN face_data
    THEN [outcome |-> "skip", result_face |-> None, call |-> NoCalls]
    ELSE
    LET bbox == face_data.box
        cropped_data == crop_face_aligned(img, bbox, det_out, rect_out)
        call == [aligned |-> AlignedOutcome(img, bbox, det_out, rect_out),
                 simple |-> FALSE, scorer |-> FALSE,
                 crop |-> None, conf_out |-> None, confidence |-> None,
                 result |-> None]
    IN  IF cropped_data = None
        THEN [outcome |-> "skip", result_face |-> None, call |-> call]
        ELSE LET confidence == dlib_confidence_score(cropped_data.loose, conf_out)
                 result_face == ResultFace(face_data, bbox, confidence, cropped_data.loose)
             IN  [outcome |-> "emit",
                  result_face |-> result_face,
                  call |-> [call EXCEPT !.scorer = TRUE, !.crop = cropped_data.loose,
                                        !.conf_out = conf_out,
                                        !.confidence = confidence,
                                        !.result = result_face]]

\* a plausible slip: a face whose crop gets no confidence is dropped
assess_face_drop_unscored(img, face_data, det_out, rect_out, conf_out) ==
    IF "box" \notin DOMAIN face_data
    THEN [outcome |-> "skip", result_face |-> None, call |-> NoCalls]
    ELSE
    LET bbox == face_data.box
        cropped_data == crop_face_aligned(img, bbox, det_out, rect_out)
        use_aligned == cropped_data # None
        cropped_image == IF use_aligned THEN cropped_data.loose
                         ELSE crop_face_simple(img, bbox)
        call == [aligned |-> AlignedOutcome(img, bbox, det_out, rect_out),
                 simple |-> ~use_aligned, scorer |-> FALSE,
                 crop |-> cropped_image, conf_out |-> None, confidence |-> None,
                 result |-> None]
    IN  IF Raised(cropped_image)
        THEN [outcome |-> "raise", result_face |-> None, call |-> call]
        ELSE LET confidence == dlib_confidence_score(cropped_image, conf_out)
                 scored == [call EXCEPT !.scorer = TRUE, !.conf_out = conf_out,
                                        !.confidence = confidence]
             IN  IF confidence = None
                 THEN [outcome |-> "skip", result_face |-> None, call |-> scored]
                 ELSE LET result_face ==
                              ResultFace(face_data, bbox, confidence, cropped_image)
                      IN  [outcome |-> "emit",
                           result_face |-> result_face,
                           call |-> [scored EXCEPT !.result = result_face]]

assess_face(img, face_data, det_out, rect_out, conf_out) ==
    IF "box" \notin DOMAIN face_data
    THEN [outcome |-> "skip", result_face |-> None, call |-> NoCalls]
    ELSE
    LET bbox == face_data.box
        cropped_data == crop_face_aligned(img, bbox, det_out, rect_out)
        use_aligned == cropped_data # None
        cropped_image == IF use_aligned THEN cropped_data.loose
                         ELSE crop_face_simple(img, bbox)
        call == [aligned |-> AlignedOutcome(img, bbox, det_out, rect_out),
                 simple |-> ~use_aligned, scorer |-> FALSE,
                 crop |-> cropped_image, conf_out |-> None, confidence |-> None,
                 result |-> None]
    IN  IF Raised(cropped_image)
        THEN [outcome |-> "raise", result_face |-> None, call |-> call]
        ELSE IF cropped_image = None
        THEN [outcome |-> "skip", result_face |-> None, call |-> call]
        ELSE LET confidence == dlib_confidence_score(cropped_image, conf_out)
                 scored == [call EXCEPT !.scorer = TRUE, !.conf_out = conf_out,
                                        !.confidence = confidence]
             IN  IF Raised(confidence)
                 THEN [outcome |-> "raise", result_face |-> None, call |-> scored]
                 ELSE LET result_face ==
                              ResultFace(face_data, bbox, confidence, cropped_image)
                      IN  [outcome |-> "emit",
                           result_face |-> result_face,
                           call |-> [scored EXCEPT !.result = result_face]]

----------------------------------------------------------------------------
(* detect_enhanced, app.py 420-487: one iteration of the loop over the     *)
(* detections (lines 457-480).  run is the output of the handler's single  *)
(* detector.run call: the parallel lists dets, scores, idx.                *)

\* a plausible slip: the crop is scored again instead of reporting the
\* detection's own score and pose
detect_face_rescored(img, run, i) ==
    LET d == run.dets[i]
        bbox == dlib_bbox(d)
        cropped == crop_face_simple(img, bbox)
        confidence == dlib_confidence_score(cropped, run)
        result_face == [box |-> bbox, confidence |-> confidence,
                        cropped_size |-> [width |-> Width(cropped),
                                          height |-> Height(cropped)]]
    IN  [outcome |-> "emit",
         result_face |-> result_face,
         call |-> [NoCalls EXCEPT !.simple = TRUE, !.scorer = TRUE, !.crop = cropped,
                                  !.result = result_face]]

detect_face(img, run, i) ==
    LET d == run.dets[i]
        bbox == dlib_bbox(d)
        cropped == crop_face_simple(img, bbox)
        call == [NoCalls EXCEPT !.simple = TRUE, !.crop = cropped]
    IN  IF Raised(cropped)
        THEN [outcome |-> "raise", result_face |-> None, call |-> call]
        ELSE IF cropped = None
        THEN [outcome |-> "skip", result_face |-> None, call |-> call]
        ELSE IF run.idx[i] >= Len(DLIB_SUBD) \/ run.idx[i] < -Len(DLIB_SUBD)
        THEN [outcome |-> "raise", result_face |-> None, call |-> call]
        ELSE LET result_face ==
                     [box |-> bbox,
                      confidence |-> [score |-> run.scores[i],
                                      type |-> DLIB_SUBD[(run.idx[i] % Len(DLIB_SUBD)) + 1],
                                      type_raw |-> run.idx[i]],
                      cropped_size |-> [width |-> Width(cropped),
                                        height |-> Height(cropped)]]
             IN  [outcome |-> "emit",
                  result_face |-> result_face,
                  call |-> [call EXCEPT !.result = result_face]]

----------------------------------------------------------------------------
(* Input universes *)

MaxCoord == 2       \* box coordinates range over 0..MaxCoord
MaxShift == 3       \* detector rectangles are shifted by 0..MaxShift
MaxDets == 3        \* detections per detector run

Coords == 0..MaxCoord

\* every box with all four keys, well-formed or not
Boxes ==
    {[x_min |-> a, y_min |-> b, x_max |-> c, y_max |-> d] :
        a \in Coords, b \in Coords, c \in Coords, d \in Coords}

WellFormed(box) ==
    HasKeys(box) /\ box.x_min < box.x_max /\ box.y_min < box.y_max

\* query boxes of the matcher: any x extent (also degenerate or inverted)
QueryBoxes ==
    {[x_min |-> a, y_min |-> 0, x_max |-> c, y_max |-> 2] :
        a \in Coords, c \in Coords}

\* dlib rectangles: always of positive width and height
DetRects ==
    {[left |-> l, top |-> 0, right |-> l + 2, bottom |-> 1 + t] :
        l \in 0..MaxShift, t \in 0..1}

\* boxes handed to the simple cropper: coordinates on a coarse grid that
\* reaches outside the image on every side
CoordStep == 7
MaxSteps == 2
GridCoords == {CoordStep * k : k \in (-MaxSteps)..MaxSteps}

SimpleBoxes ==
    {[x_min |-> a, y_min |-> b, x_max |-> c, y_max |-> d] :
        a \in GridCoords, b \in GridCoords, c \in GridCoords, d \in GridCoords}

SimpleImages == {[w |-> 10, h |-> 12]}

\* the worked example: box (100,100)-(200,200) in a 1000 x 1000 image
ExampleImage == [w |-> 1000, h |-> 1000]
ExampleBox == [x_min |-> 100, y_min |-> 100, x_max |-> 200, y_max |-> 200]

\* bounding rectangles of rotated landmarks and image shapes for the
\* aligned cropper: sides around 5 * MIN_PADDING, where 0.2 * side passes
\* the padding floor
MaxOver == 6
TightSides == {100} \cup {PaddingDen * MIN_PADDING + k : k \in 1..MaxOver}
TightOrigins == {-5, 0, 10, 40}
AlignedShapes == {150, 300}

SeqsUpTo(S, n) == UNION {[1..k -> S] : k \in 0..n}

\* what detector.run returns for a sequence of detections: the parallel
\* lists dets, scores, idx
RunOf(ds) ==
    [dets |-> [k \in 1..Len(ds) |-> ds[k].rect],
     scores |-> [k \in 1..Len(ds) |-> ds[k].score],
     idx |-> [k \in 1..Len(ds) |-> ds[k].idx]]

Detection(rect, score, idx) == [rect |-> rect, score |-> score, idx |-> idx]

NearRect == [left |-> 2, top |-> 2, right |-> 6, bottom |-> 7]
EdgeRect == [left |-> -1, top |-> 3, right |-> 4, bottom |-> 8]
FarRect == [left |-> 8, top |-> 9, right |-> 10, bottom |-> 12]

\* detect_enhanced: detector results over the whole image
Detections == [rect : {NearRect, EdgeRect}, score : {5, -3}, idx : {0, 4, 6}]
DetectRuns == {RunOf(ds) : ds \in SeqsUpTo(Detections, MaxDets)}

\* assess_quality: what the detector does inside crop_face_aligned, what
\* lines 151-167 do, and what the detector does inside dlib_confidence_score
\* (pose index 7 is outside DLIB_SUBD: the lookup raises IndexError)
AlignedRuns ==
    {Raise("RuntimeError"), RunOf(<<>>),
     RunOf(<<Detection(NearRect, 5, 0)>>), RunOf(<<Detection(FarRect, 5, 0)>>)}
RectOuts == {Raise("RuntimeError"), [x |-> 2, y |-> 2, w |-> 3, h |-> 4]}
ConfRuns ==
    {Raise("RuntimeError"), RunOf(<<>>),
     RunOf(<<Detection(NearRect, -3, 1), Detection(EdgeRect, 5, 0)>>)}
    \cup {RunOf(<<Detection(NearRect, 5, i)>>) : i \in {6, 7}}

\* the face records of a request: without box, with a well-formed box,
\* with a box that lacks a key, with a zero-width box
MaxFaces == 2
FaceRecords ==
    {[name |-> "nobox"],
     [name |-> "a", box |-> [x_min |-> 2, y_min |-> 2, x_max |-> 6, y_max |-> 8]],
     [name |-> "b", box |-> [x_min |-> 1, y_min |-> 3, x_max |-> 5, y_max |-> 6]],
     [name |-> "nokey", box |-> [x_min |-> 2, y_min |-> 2, x_max |-> 6]],
     [name |-> "flat", box |-> [x_min |-> 3, y_min |-> 3, x_max |-> 3, y_max |-> 7]]}

\* the function harness is not running
HarnessIdle == fn = "none" /\ arg = None /\ ret = None

\* the handlers are not running
HandlersIdle ==
    /\ pc = "idle"
    /\ image_bytes = "ok"
    /\ image = None
    /\ faces_data = <<>>
    /\ detected = None
    /\ pos = 0
    /\ result_faces = <<>>
    /\ response = None
    /\ calls = <<>>

handler_vars == <<pc, image_bytes, image, faces_data, detected, pos,
                  result_faces, response, calls>>

----------------------------------------------------------------------------
(* calculate_iou applied to every pair of boxes *)

InitIou ==
    /\ fn = "calculate_iou"
    /\ arg \in [box1 : Boxes, box2 : Boxes]
    /\ ret = Pending
    /\ HandlersIdle

CallCalculateIou ==
    /\ fn = "calculate_iou"
    /\ ret = Pending
    /\ ret' = calculate_iou(arg.box1, arg.box2)
    /\ UNCHANGED <<fn, arg, handler_vars>>

NextIou == CallCalculateIou

SpecIou == InitIou /\ [][NextIou]_vars

(* find_best_matching_face applied to every query box and detector result *)

InitMatch ==
    /\ fn = "find_best_matching_face"
    /\ arg \in [dets : SeqsUpTo(DetRects, MaxDets), bbox : QueryBoxes]
    /\ ret = Pending
    /\ HandlersIdle

CallFindBestMatchingFace ==
    /\ fn = "find_best_matching_face"
    /\ ret = Pending
    /\ ret' = find_best_matching_face(arg.dets, arg.bbox)
    /\ UNCHANGED <<fn, arg, handler_vars>>

NextMatch == CallFindBestMatchingFace

SpecMatch == InitMatch /\ [][NextMatch]_vars

----------------------------------------------------------------------------
(* POST /quality/assess *)

InitAssess ==
    /\ HarnessIdle
    /\ pc = "start"
    /\ image_bytes \in {"ok", "corrupt"}
    /\ image = None
    /\ faces_data \in SeqsUpTo(FaceRecords, MaxFaces)
    /\ detected = None
    /\ pos = 0
    /\ result_faces = <<>>
    /\ response = None
    /\ calls = <<>>

\* lines 328-334
AssessLoad ==
    /\ pc = "start"
    /\ image' = load_image_from_bytes(image_bytes)
    /\ IF image' = None
       THEN /\ response' = [status |-> 400, error |-> "Failed to load image"]
            /\ pc' = "done"
            /\ pos' = pos
       ELSE /\ response' = response
            /\ pc' = "loop"
            /\ pos' = 1
    /\ result_faces' = <<>>
    /\ UNCHANGED <<fn, arg, ret, image_bytes, faces_data, detected, calls>>

\* lines 335-366, and 370-373 when the iteration raises
AssessFace ==
    /\ pc = "loop"
    /\ pos <= Len(faces_data)
    /\ \E det_out \in AlignedRuns, rect_out \in RectOuts, conf_out \in ConfRuns :
          LET r == assess_face(image, faces_data[pos], det_out, rect_out, conf_out)
          IN  /\ calls' = Append(calls, r.call)
              /\ IF r.outcome = "raise"
                 THEN /\ response' = [status |-> 500, error |-> "exception"]
                      /\ pc' = "done"
                      /\ UNCHANGED <<pos, result_faces>>
                 ELSE /\ result_faces' = IF r.outcome = "emit"
                                         THEN Append(result_faces, r.result_face)
                                         ELSE result_faces
                      /\ pos' = pos + 1
                      /\ UNCHANGED <<pc, response>>
    /\ UNCHANGED <<fn, arg, ret, image_bytes, image, faces_data, detected>>

\* line 368
AssessReturn ==
    /\ pc = "loop"
    /\ pos > Len(faces_data)
    /\ response' = [status |-> 200, faces |-> result_faces]
    /\ pc' = "done"
    /\ UNCHANGED <<fn, arg, ret, image_bytes, image, faces_data, detected, pos,
                   result_faces, calls>>

Next == AssessLoad \/ AssessFace \/ AssessReturn

Init == InitAssess

Spec == Init /\ [][Next]_vars

(* POST /quality/detect *)

InitDetect ==
    /\ HarnessIdle
    /\ pc = "start"
    /\ image_bytes \in {"ok", "corrupt"}
    /\ image = None
    /\ faces_data = <<>>
    /\ detected = None
    /\ pos = 0
    /\ result_faces = <<>>
    /\ response = None
    /\ calls = <<>>

\* lines 445-456: the image is loaded and the detector run once
DetectRun ==
    /\ pc = "start"
    /\ image' = load_image_from_bytes(image_bytes)
    /\ IF image' = None
       THEN /\ response' = [status |-> 400, error |-> "Failed to load image"]
            /\ pc' = "done"
            /\ UNCHANGED <<detected, pos, calls>>
       ELSE \E run \in DetectRuns \cup {Raise("RuntimeError")} :
              /\ calls' = Append(calls, [NoCalls EXCEPT !.aligned = "detector.run"])
              /\ IF Raised(run)
                 THEN /\ response' = [status |-> 500, error |-> "exception"]
                      /\ pc' = "done"
                      /\ UNCHANGED <<detected, pos>>
                 ELSE /\ detected' = run
                      /\ pos' = 1
                      /\ pc' = "loop"
                      /\ response' = response
    /\ result_faces' = <<>>
    /\ UNCHANGED <<fn, arg, ret, image_bytes, faces_data>>

\* lines 457-480, and 484-487 when the iteration raises
DetectFace ==
    /\ pc = "loop"
    /\ pos <= Len(detected.dets)
    /\ LET r == detect_face(image, detected, pos)
       IN  /\ calls' = Append(calls, r.call)
           /\ IF r.outcome = "raise"
              THEN /\ response' = [status |-> 500, error |-> "exception"]
                   /\ pc' = "done"
                   /\ UNCHANGED <<pos, result_faces>>
              ELSE /\ result_faces' = IF r.outcome = "emit"
                                      THEN Append(result_faces, r.result_face)
                                      ELSE result_faces
                   /\ pos' = pos + 1
                   /\ UNCHANGED <<pc, response>>
    /\ UNCHANGED <<fn, arg, ret, image_bytes, image, faces_data, detected>>

\* line 482
DetectReturn ==
    /\ pc = "loop"
    /\ pos > Len(detected.dets)
    /\ response' = [status |-> 200, faces |-> result_faces]
    /\ pc' = "done"
    /\ UNCHANGED <<fn, arg, ret, image_bytes, image, faces_data, detected, pos,
                   result_faces, calls>>

NextDetect == DetectRun \/ DetectFace \/ DetectReturn

SpecDetect == InitDetect /\ [][NextDetect]_vars

----------------------------------------------------------------------------
(* Claims about the matcher and the overlap measure *)

Called(f) == fn = f /\ ret # Pending

\* the interiors of a and b have no point in common
Disjoint(a, b) ==
    \/ a.x_max <= b.x_min
    \/ b.x_max <= a.x_min
    \/ a.y_max <= b.y_min
    \/ b.y_max <= a.y_min

IouOf(k) == calculate_iou(arg.bbox, dlib_bbox(arg.dets[k]))

\* the first position whose IoU is maximal
IsFirstMax(k) ==
    /\ \A j \in 1..Len(arg.dets) : FloatGE(IouOf(k), IouOf(j))
    /\ \A j \in 1..(k - 1) : FloatGT(IouOf(k), IouOf(j))

\* C1 as stated (here for well-formed query boxes already): a non-empty
\* detector result always yields a detection, absent only for an empty one.
C1_Original ==
    (Called("find_best_matching_face") /\ WellFormed(arg.bbox)) =>
        (ret = None <=> Len(arg.dets) = 0)

\* C1 as amended: the matcher returns absent exactly when no detection has
\* an IoU above 0 (an empty result included); otherwise it returns a
\* detection of maximal IoU, which is above 0.
C1_PositiveIouThreshold ==
    Called("find_best_matching_face") =>
        /\ ~Raised(ret)
        /\ ret = None <=> \A k \in 1..Len(arg.dets) : FloatEQ(IouOf(k), Zero)
        /\ ret # None =>
              \E k \in 1..Len(arg.dets) :
                  /\ ret = arg.dets[k]
                  /\ FloatGT(IouOf(k), Zero)
                  /\ \A j \in 1..Len(arg.dets) : FloatGE(IouOf(k), IouOf(j))

\* a non-empty detector result none of whose detections overlaps the query
C1_Witness ==
    /\ Called("find_best_matching_face")
    /\ WellFormed(arg.bbox)
    /\ Len(arg.dets) > 0
    /\ \A k \in 1..Len(arg.dets) : FloatEQ(IouOf(k), Zero)
    /\ ret = None

\* C2: the detection returned has an IoU >= that of every other detection,
\* and among detections of maximal IoU it is the earliest in detector order.
C2_FirstMaximum ==
    (Called("find_best_matching_face") /\ ret # None) =>
        \E k \in 1..Len(arg.dets) : IsFirstMax(k) /\ ret = arg.dets[k]

\* three detections low / high / mid, and a tie between different rectangles
C2_Witness ==
    /\ Called("find_best_matching_face")
    /\ Len(arg.dets) = 3
    /\ FloatGT(IouOf(1), Zero)
    /\ FloatGT(IouOf(3), IouOf(1))
    /\ FloatGT(IouOf(2), IouOf(3))
    /\ ret = arg.dets[2]

C2_WitnessTie ==
    /\ Called("find_best_matching_face")
    /\ Len(arg.dets) = 2
    /\ arg.dets[1] # arg.dets[2]
    /\ FloatEQ(IouOf(1), IouOf(2))
    /\ FloatGT(IouOf(1), Zero)
    /\ ret = arg.dets[1]

----------------------------------------------------------------------------
(* crop_face_simple applied to every grid box, and to the worked example *)

InitSimple ==
    /\ fn = "crop_face_simple"
    /\ arg \in [img : SimpleImages, bbox : SimpleBoxes]
                  \cup {[img |-> ExampleImage, bbox |-> ExampleBox]}
    /\ ret = Pending
    /\ HandlersIdle

CallCropFaceSimple ==
    /\ fn = "crop_face_simple"
    /\ ret = Pending
    /\ ret' = crop_face_simple(arg.img, arg.bbox)
    /\ UNCHANGED <<fn, arg, handler_vars>>

NextSimple == CallCropFaceSimple

SpecSimple == InitSimple /\ [][NextSimple]_vars

(* lines 169-176 of crop_face_aligned applied to landmark rectangles *)

InitLoose ==
    /\ fn = "loose_rect"
    /\ arg \in [x : TightOrigins, y : TightOrigins, w : TightSides, h : TightSides,
                W : AlignedShapes, H : AlignedShapes]
    /\ ret = Pending
    /\ HandlersIdle

CallLooseRect ==
    /\ fn = "loose_rect"
    /\ ret = Pending
    /\ ret' = loose_rect(arg.x, arg.y, arg.w, arg.h, arg.W, arg.H)
    /\ UNCHANGED <<fn, arg, handler_vars>>

NextLoose == CallLooseRect

SpecLoose == InitLoose /\ [][NextLoose]_vars

----------------------------------------------------------------------------
(* Claims about the croppers *)

\* the pixel columns (rows) lo <= c < hi
Span(lo, hi) == lo..(hi - 1)

\* the crop views exactly the pixels of [lo_x, hi_x) x [lo_y, hi_y)
ViewsRegion(crop, lo_x, hi_x, lo_y, hi_y) ==
    LET cols == Span(crop.x0, crop.x1)
        rows == Span(crop.y0, crop.y1)
    IN  IF Span(lo_x, hi_x) = {} \/ Span(lo_y, hi_y) = {}
        THEN cols = {} \/ rows = {}
        ELSE cols = Span(lo_x, hi_x) /\ rows = Span(lo_y, hi_y)

\* the region C8 states for the call in arg, r = min(width * p, height * p)
C8_r == Min(arg.bbox.x_max - arg.bbox.x_min, arg.bbox.y_max - arg.bbox.y_min)
C8_lo_x == Max(0, Trunc(PercentageDen * arg.bbox.x_min - C8_r, PercentageDen))
C8_hi_x == Min(arg.img.w, Trunc(PercentageDen * arg.bbox.x_max + C8_r, PercentageDen))
C8_lo_y == Max(0, Trunc(PercentageDen * arg.bbox.y_min - C8_r, PercentageDen))
C8_hi_y == Min(arg.img.h, Trunc(PercentageDen * arg.bbox.y_max + C8_r, PercentageDen))

\* C8: for every well-formed box the crop of simple_crop is the region
\* [max(0, x_min - r), min(W, x_max + r)) x [max(0, y_min - r), min(H, y_max + r)),
\* r = min(width * p, height * p), coordinates truncated to integers; the
\* region lies inside the image; box (100,100,200,200) in a 1000 x 1000
\* image gives (90,90)-(210,210).
C8_SimpleCropRegion ==
    (Called("crop_face_simple") /\ WellFormed(arg.bbox)) =>
        /\ ~Raised(ret)
        /\ ViewsRegion(ret, C8_lo_x, C8_hi_x, C8_lo_y, C8_hi_y)
        /\ 0 <= ret.x0 /\ ret.x0 <= ret.x1 /\ ret.x1 <= arg.img.w
        /\ 0 <= ret.y0 /\ ret.y0 <= ret.y1 /\ ret.y1 <= arg.img.h
        /\ (arg.bbox = ExampleBox /\ arg.img = ExampleImage) =>
              ret = [x0 |-> 90, x1 |-> 210, y0 |-> 90, y1 |-> 210]

\* the part of C8 the code keeps: boxes whose padded lower-right corner has
\* no negative coordinate
C8_RegionWhenCornerNotNegative ==
    (/\ Called("crop_face_simple")
     /\ WellFormed(arg.bbox)
     /\ Trunc(PercentageDen * arg.bbox.x_max + C8_r, PercentageDen) >= 0
     /\ Trunc(PercentageDen * arg.bbox.y_max + C8_r, PercentageDen) >= 0) =>
        /\ ViewsRegion(ret, C8_lo_x, C8_hi_x, C8_lo_y, C8_hi_y)
        /\ (arg.bbox = ExampleBox /\ arg.img = ExampleImage) =>
              ret = [x0 |-> 90, x1 |-> 210, y0 |-> 90, y1 |-> 210]

\* v / PaddingDen rounded to the nearest integer is n
Nearest(n, v) ==
    /\ 2 * (PaddingDen * n - v) < PaddingDen
    /\ 2 * (v - PaddingDen * n) < PaddingDen

\* relaxation * PaddingDen as C9 states it: max(25, min(0.2 * w, 0.2 * h))
C9_relaxation ==
    IF arg.w <= PaddingDen * MIN_PADDING \/ arg.h <= PaddingDen * MIN_PADDING
    THEN PaddingDen * MIN_PADDING
    ELSE IF arg.w <= arg.h THEN arg.w ELSE arg.h

\* C9: relaxation = max(25, min(0.2 * w, 0.2 * h)); the loose rectangle has
\* origin (max(0, x - relaxation), max(0, y - relaxation)), width
\* min(w + 2 * relaxation, W - x) and height min(h + 2 * relaxation, H - y),
\* each as the nearest integer pixel coordinate, the available space being
\* measured from the unclamped (x, y); for w = h = 100 the relaxation is 25
\* and the extent before clamping (150, 150).
C9_LooseRectangle ==
    Called("loose_rect") =>
        /\ ret.relaxation.num * PaddingDen = C9_relaxation * ret.relaxation.den
        /\ Nearest(ret.px, Max(0, PaddingDen * arg.x - C9_relaxation))
        /\ Nearest(ret.py, Max(0, PaddingDen * arg.y - C9_relaxation))
        /\ Nearest(ret.pw, Min(PaddingDen * arg.w + 2 * C9_relaxation,
                               PaddingDen * (arg.W - arg.x)))
        /\ Nearest(ret.ph, Min(PaddingDen * arg.h + 2 * C9_relaxation,
                               PaddingDen * (arg.H - arg.y)))
        /\ (arg.w = 100 /\ arg.h = 100) =>
              /\ FloatEQ(ret.relaxation, Float(25, 1))
              /\ (arg.W - arg.x >= 150 => ret.pw = 150)
              /\ (arg.H - arg.y >= 150 => ret.ph = 150)

\* the padded origin is clamped to 0 while the space is still measured from
\* x > 0, the relaxation is above the floor and not an integer
C9_Witness ==
    /\ Called("loose_rect")
    /\ arg.x > 0 /\ ret.px = 0
    /\ ret.pw = arg.W - arg.x
    /\ C9_relaxation > PaddingDen * MIN_PADDING
    /\ C9_relaxation % PaddingDen # 0

----------------------------------------------------------------------------
(* Claims about the two handlers *)

HasBox(face_data) == "box" \in DOMAIN face_data
FaceWellFormed(face_data) == HasBox(face_data) /\ WellFormed(face_data.box)

BoxesOf(faces) == [k \in 1..Len(faces) |-> faces[k].box]
NamesOf(faces) == [k \in 1..Len(faces) |-> faces[k].name]

AssessDone == pc = "done" /\ image_bytes = "ok" /\ fn = "none" /\ detected = None

\* C4 as stated: with a decodable image the call never ends in an error
\* response, and its output holds exactly the faces with a well-formed box,
\* in input order: a face whose box lacks a key or is degenerate is skipped
\* and every other face is assessed.
C4_MalformedFaceSkipped ==
    AssessDone =>
        /\ response.status = 200
        /\ BoxesOf(response.faces) = BoxesOf(SelectSeq(faces_data, FaceWellFormed))

\* the two halves of C4, each refuted on its own: a box lacking a key does
\* not end the call in an error response; a degenerate box leaves no entry
C4_MissingKeyNoError ==
    (AssessDone /\ \A k \in 1..Len(faces_data) :
                       HasBox(faces_data[k]) =>
                           (HasKeys(faces_data[k].box) => WellFormed(faces_data[k].box))) =>
        response.status = 200

C4_DegenerateBoxSkipped ==
    (AssessDone /\ \A k \in 1..Len(faces_data) :
                       HasBox(faces_data[k]) => HasKeys(faces_data[k].box)) =>
        /\ response.status = 200
        /\ BoxesOf(response.faces) = BoxesOf(SelectSeq(faces_data, FaceWellFormed))

\* C5: whenever aligned_crop yields absent (no detections, no match, or an
\* exception), simple_crop is called on the original image and the box, and
\* for a well-formed box its crop is not absent and the face is emitted;
\* simple_crop is never called when aligned_crop succeeded.
C5_FallbackToSimpleCrop ==
    (pc \in {"loop", "done"} /\ fn = "none" /\ detected = None) =>
        \A k \in 1..Len(calls) :
            LET c == calls[k]
                f == faces_data[k]
            IN  /\ c.aligned \in {"no_detections", "no_match", "exception"} =>
                      /\ c.simple
                      /\ c.crop = crop_face_simple(DecodedImage, f.box)
                      /\ FaceWellFormed(f) =>
                            /\ ~Raised(c.crop) /\ c.crop # None
                            /\ c.result # None
                            /\ c.result.box = f.box
                            /\ c.result.cropped_size =
                                   [width |-> Width(c.crop), height |-> Height(c.crop)]
                /\ c.aligned = "ok" => ~c.simple /\ c.result # None

\* two faces with well-formed boxes, one whose detector pass found nothing
\* and one whose alignment raised, both emitted from the simple crop
C5_Witness ==
    /\ pc = "done" /\ fn = "none" /\ detected = None
    /\ Len(calls) = 2
    /\ FaceWellFormed(faces_data[1]) /\ FaceWellFormed(faces_data[2])
    /\ calls[1].aligned = "no_detections" /\ calls[1].simple
    /\ calls[2].aligned = "exception" /\ calls[2].simple
    /\ Len(response.faces) = 2

\* C6: score_confidence returns absent when the detector finds nothing in
\* the crop or raises, and never propagates an error; the face is emitted
\* all the same, with its confidence absent.  With at least one detection
\* it returns the first detection's score and pose_index, pose_category
\* being the entry of the 7-entry table at pose_index (absent when the
\* lookup raises).
C6_ConfidenceScore ==
    (pc \in {"loop", "done"} /\ fn = "none" /\ detected = None) =>
        \A k \in 1..Len(calls) :
            LET c == calls[k]
            IN  c.scorer =>
                  /\ ~Raised(c.confidence)
                  /\ (Raised(c.conf_out) \/ Empty(c.crop)) => c.confidence = None
                  /\ (~Raised(c.conf_out) /\ ~Empty(c.crop)) =>
                        IF Len(c.conf_out.dets) = 0
                               \/ c.conf_out.idx[1] \notin 0..6
                        THEN c.confidence = None
                        ELSE c.confidence =
                                 [score |-> c.conf_out.scores[1],
                                  type |-> DLIB_SUBD[c.conf_out.idx[1] + 1],
                                  type_raw |-> c.conf_out.idx[1]]
                  /\ c.result # None
                  /\ c.result.confidence = c.confidence

\* one face scored while the detector raised, one scored from the first of
\* two detections; both are in the response
C6_Witness ==
    /\ pc = "done" /\ fn = "none" /\ detected = None
    /\ Len(calls) = 2
    /\ calls[1].scorer /\ Raised(calls[1].conf_out)
    /\ calls[2].scorer /\ ~Raised(calls[2].conf_out)
    /\ Len(calls[2].conf_out.dets) = 2
    /\ response.status = 200
    /\ Len(response.faces) = 2
    /\ response.faces[1].confidence = None
    /\ response.faces[2].confidence.type = "left"

\* C7: when every box present is well-formed, the output is exactly the
\* subsequence of the input faces that carry a box, in input order, each
\* with its input box; for a face without box nothing is called.
C7_OutputIsBoxedSubsequence ==
    (AssessDone /\ \A k \in 1..Len(faces_data) :
                       HasBox(faces_data[k]) => WellFormed(faces_data[k].box)) =>
        /\ response.status = 200
        /\ response.faces = result_faces
        /\ BoxesOf(response.faces) = BoxesOf(SelectSeq(faces_data, HasBox))
        /\ NamesOf(response.faces) = NamesOf(SelectSeq(faces_data, HasBox))
        /\ Len(calls) = Len(faces_data)
        /\ \A k \in 1..Len(faces_data) :
              ~HasBox(faces_data[k]) => calls[k] = NoCalls

\* two different boxed faces come out in input order, neither of them with
\* a confidence
C7_Witness ==
    /\ AssessDone
    /\ Len(faces_data) = 2
    /\ faces_data[1].name = "b" /\ faces_data[2].name = "a"
    /\ response.status = 200
    /\ NamesOf(response.faces) = <<"b", "a">>
    /\ response.faces[1].confidence = None
    /\ response.faces[2].confidence = None

\* a face without box between the start and a boxed face
C7_WitnessNoBox ==
    /\ AssessDone
    /\ Len(faces_data) = 2
    /\ ~HasBox(faces_data[1]) /\ HasBox(faces_data[2])
    /\ response.status = 200
    /\ Len(response.faces) = 1

DetectorRuns == Cardinality({k \in 1..Len(calls) : calls[k].aligned = "detector.run"})

\* C10: detect_enhanced runs the detector once and emits, for every raw
\* detection i in detector order, one entry with detection i's box and
\* detection i's own score and pose (pose_category = table[pose_index]);
\* score_confidence is never invoked.
C10_DetectReportsOwnScores ==
    (fn = "none" /\ faces_data = <<>> /\ detected # None) =>
        /\ DetectorRuns = 1
        /\ \A k \in 1..Len(calls) : ~calls[k].scorer
        /\ pc = "done" =>
              /\ response.status = 200
              /\ response.faces = result_faces
              /\ Len(response.faces) = Len(detected.dets)
              /\ \A i \in 1..Len(detected.dets) :
                    /\ response.faces[i].box = dlib_bbox(detected.dets[i])
                    /\ response.faces[i].confidence =
                           [score |-> detected.scores[i],
                            type |-> DLIB_SUBD[detected.idx[i] + 1],
                            type_raw |-> detected.idx[i]]

\* three detections whose scores and poses differ
C10_Witness ==
    /\ fn = "none" /\ faces_data = <<>> /\ detected # None
    /\ pc = "done"
    /\ Len(detected.dets) = 3
    /\ detected.scores[1] # detected.scores[2]
    /\ detected.idx[2] # detected.idx[3]
    /\ detected.dets[1] # detected.dets[3]
    /\ Len(response.faces) = 3

----------------------------------------------------------------------------
(* Claims about degenerate boxes and about the loose rectangle *)

\* a zero-area box: an edge pair coincides, no edge pair is inverted
Degenerate(box) ==
    /\ box.x_min <= box.x_max /\ box.y_min <= box.y_max
    /\ (box.x_min = box.x_max \/ box.y_min = box.y_max)

\* C11: iou returns 0, as a value and without raising, whenever at least
\* one of the two boxes is degenerate (the other being degenerate or
\* well-formed), also when both are degenerate and identical or overlapping.
C11_DegenerateIouIsZero ==
    (/\ Called("calculate_iou")
     /\ Degenerate(arg.box1) \/ Degenerate(arg.box2)
     /\ Degenerate(arg.box1) \/ WellFormed(arg.box1)
     /\ Degenerate(arg.box2) \/ WellFormed(arg.box2)) =>
        /\ ~Raised(ret)
        /\ FloatEQ(ret, Zero)

\* the part of C11 the code keeps: one degenerate box against a well-formed
\* one, or two degenerate boxes that do not touch
C11_ZeroUnlessBothDegenerateTouch ==
    (/\ Called("calculate_iou")
     /\ Degenerate(arg.box1) \/ Degenerate(arg.box2)
     /\ Degenerate(arg.box1) \/ WellFormed(arg.box1)
     /\ Degenerate(arg.box2) \/ WellFormed(arg.box2)) =>
        IF /\ Degenerate(arg.box1) /\ Degenerate(arg.box2)
           /\ Max(arg.box1.x_min, arg.box2.x_min) <= Min(arg.box1.x_max, arg.box2.x_max)
           /\ Max(arg.box1.y_min, arg.box2.y_min) <= Min(arg.box1.y_max, arg.box2.y_max)
        THEN ret = Raise("ZeroDivisionError")
        ELSE ~Raised(ret) /\ FloatEQ(ret, Zero)

\* the tight rectangle of the call in arg lies inside the W x H image
C12_TightInside ==
    /\ 0 <= arg.x /\ 0 <= arg.y
    /\ arg.x + arg.w <= arg.W
    /\ arg.y + arg.h <= arg.H

\* C12: for every tight rectangle inside the transformed image the loose
\* rectangle contains it: loose origin <= (x, y) and loose origin + loose
\* extent >= (x + w, y + h).
C12_LooseContainsTight ==
    (Called("loose_rect") /\ C12_TightInside) =>
        /\ ret.px <= arg.x
        /\ ret.py <= arg.y
        /\ ret.px + ret.pw >= arg.x + arg.w
        /\ ret.py + ret.ph >= arg.y + arg.h

\* the part of C12 the code keeps: the origin never passes (x, y), and the
\* far corner is covered when the space right of and below the tight
\* rectangle is at least the relaxation
C12_ContainsWhenSpaceForPadding ==
    (Called("loose_rect") /\ C12_TightInside) =>
        /\ ret.px <= arg.x
        /\ ret.py <= arg.y
        /\ PaddingDen * (arg.W - arg.x - arg.w) >= C9_relaxation =>
              ret.px + ret.pw >= arg.x + arg.w
        /\ PaddingDen * (arg.H - arg.y - arg.h) >= C9_relaxation =>
              ret.py + ret.ph >= arg.y + arg.h

====
